---- MODULE Spec2Model ----
(***************************************************************************)
(* A model of the single-threaded reactor of src/src/reactor.rs: the token *)
(* counter, the listener map, the timer list, intervals with their shared  *)
(* cancellation flag, and the run loop (run_internal).  Time is a natural  *)
(* number standing for Instant; user code (the code that runs before run,  *)
(* inside a timer or listener callback, and after run returned) is a       *)
(* nondeterministic sequence of calls of the public API.                   *)
(*                                                                         *)
(* Modelling choices:                                                      *)
(*  - poll (mio, an external collaborator) may return after any amount of  *)
(*    time with any batch of events, also an empty one;                    *)
(*  - events holds the part of the batch the for loop has not reached;     *)
(*    duration is reset once the timer check has read it;                  *)
(*  - a callback that calls run() again (a nested loop) and the poll()     *)
(*    accessor, which lends the reactor state to a user closure, are not   *)
(*    modelled;                                                            *)
(*  - UsizeMax stands for std::usize::MAX, at which issue_token panics.    *)
(***************************************************************************)
EXTENDS Integers, Sequences, FiniteSets, TLC

\* ---- bounds of the model ------------------------------------------------
MaxTime == 1
MaxDur == 1
MaxTimers == 2
MaxIntervals == 1
MaxBatch == 2
UsizeMax == 2
MaxOps == 2

\* ---- value spaces -------------------------------------------------------
Instants == 0..(MaxTime + MaxDur)
Durations == 0..MaxDur
Tokens == 0..(UsizeMax - 1)
ListenerFns == {"f", "g"}
Handles == 1..MaxIntervals
NoneVal == -1
NoFn == "-"

VARIABLES
    now,               \* Instant::now()
    quit,              \* ReactorInternal.quit
    token_ticker,      \* ReactorInternal.token_ticker
    event_listeners,   \* ReactorInternal.event_listeners: token -> closure or NoFn
    timeout_listeners, \* ReactorInternal.timeout_listeners: Vec of entries
    cancelled,         \* IntervalHandle.cancelled, per handle
    handles,           \* number of IntervalHandles created so far
    pc,                \* where control is
    duration,          \* the CalculateDurationResult of this iteration
    events,            \* the events of the last poll that the for loop has not reached yet
    running,           \* the user callback being run by the loop
    borrow,            \* the borrow of the RefCell the loop holds while user code runs
    issued,            \* history: the tokens returned by issue_token, in order
    registered,        \* history: per token, the closure of the latest set not yet removed
    lastOp,            \* the API call made by the last step, if it was one
    ops,               \* number of API calls made so far
    fired              \* history: the ids of the set_timeout entries whose callback was called

vars == <<now, quit, token_ticker, event_listeners, timeout_listeners, cancelled,
          handles, pc, duration, events, running, borrow, issued, registered,
          lastOp, ops, fired>>

reactorState == <<quit, token_ticker, event_listeners, timeout_listeners>>

NoOp == [op |-> "none", arg |-> 0, fn |-> NoFn]
NoCallback == [kind |-> "none", token |-> 0, fn |-> NoFn, handle |-> 0, timeout |-> 0, fire_at |-> 0]
NoDuration == [duration |-> NoneVal, fire_at |-> NoneVal, idx |-> 0]

\* id is history: the number of the set_timeout call that pushed the entry
\* (0 for the wrapping timeouts pushed by reschedule_interval)
TimerEntries == [fire_at : Instants, kind : {"timeout", "interval"},
                 timeout : Durations, handle : 0..MaxIntervals, id : 0..MaxOps]

Batches == UNION {[1..n -> Tokens] : n \in 0..MaxBatch}

\* ---- pure helpers -------------------------------------------------------

\* mutant: the entry is left in the list
VecRemoveNothing(list, idx) == list

\* Vec::remove(idx), idx 0-based
VecRemove(list, idx) ==
    [i \in 1..(Len(list) - 1) |-> IF i <= idx THEN list[i] ELSE list[i + 1]]

\* the body of the for loop of calculate_duration, from position i (1-based) on
RECURSIVE CalculateDurationScan(_, _, _, _)
CalculateDurationScan(list, t, i, acc) ==
    IF i > Len(list) THEN acc
    ELSE LET candidate == IF list[i].fire_at > t THEN list[i].fire_at - t ELSE 0
         IN IF acc.duration = NoneVal \/ candidate < acc.duration
            THEN CalculateDurationScan(list, t, i + 1,
                    [duration |-> candidate, fire_at |-> list[i].fire_at, idx |-> i - 1])
            ELSE CalculateDurationScan(list, t, i + 1, acc)

Reactor_calculate_duration(list, t) == CalculateDurationScan(list, t, 1, NoDuration)

\* mutant: the listener map is not looked at
IsEmptyTimersOnly(timers, listeners) == timers = <<>>

Reactor_is_empty(timers, listeners) ==
    timers = <<>> /\ \A t \in Tokens : listeners[t] = NoFn

\* mutant: the wrapper never sees the flag
IsCancelledNever(h) == FALSE

IntervalHandle_is_cancelled(h) == cancelled[h]

\* mutants: insert keeps an existing listener; remove removes nothing
MapInsertIfAbsent(listeners, token, fn) ==
    IF listeners[token] = "-" THEN [listeners EXCEPT ![token] = fn] ELSE listeners
MapRemoveKeeps(listeners, token) == listeners

\* BTreeMap::insert / BTreeMap::remove on the listener map
MapInsert(listeners, token, fn) == [listeners EXCEPT ![token] = fn]
MapRemove(listeners, token) == [listeners EXCEPT ![token] = NoFn]
MapGet(listeners, token) == listeners[token]

\* the entry set_timeout pushes: run_at = Instant::now() + timeout
TimeoutEntry(t, timeout, kind, h, id) ==
    [fire_at |-> t + timeout, kind |-> kind, timeout |-> timeout, handle |-> h,
     id |-> id]

\* mutant: the RefMut taken to remove the entry is kept while the callback runs
BorrowHeldAcrossCallback == "mut"

\* the borrow of self.i the loop still holds when it calls a callback: the
\* temporaries of the let statements are dropped before the call
BorrowAcrossCallback == "none"

\* mutant: the timer is fired whenever the poll returns
ElapsedAlways(t, fire_at) == TRUE

\* mutant: a timer due exactly now is not fired
ElapsedStrict(t, fire_at) == t > fire_at

\* the timer has elapsed: Instant::now() >= fire_at
Elapsed(t, fire_at) == t >= fire_at

\* mutant: the iteration ends after a callback (continue)
AfterCallbackContinue(q) == IF q THEN "stopped" ELSE "top"

\* mutant: the timer check is made again after a callback
AfterCallbackRecheck(q) == IF q THEN "stopped" ELSE "wake"

\* mutant: the quit flag is not checked after a callback
AfterCallbackNoBreak(q) == "dispatch"

\* where the loop goes after a callback: if self.i.borrow().quit { break; }
AfterCallback(q) == IF q THEN "stopped" ELSE "dispatch"

\* mutant: the counter is not advanced
TickerUnchanged(t) == t

\* self.i.borrow_mut().token_ticker += 1
TickerIncrement(t) == t + 1

\* ---- initial state: Reactor::new() --------------------------------------
Init ==
    /\ now = 0
    /\ quit = FALSE
    /\ token_ticker = 0
    /\ event_listeners = [t \in Tokens |-> NoFn]
    /\ timeout_listeners = <<>>
    /\ cancelled = [h \in Handles |-> FALSE]
    /\ handles = 0
    /\ pc = "init"
    /\ duration = NoDuration
    /\ events = <<>>
    /\ running = NoCallback
    /\ borrow = "none"
    /\ issued = <<>>
    /\ registered = [t \in Tokens |-> NoFn]
    /\ lastOp = NoOp
    /\ ops = 0
    /\ fired = {}

\* ---- user code ----------------------------------------------------------
InCallback == pc \in {"timer_cb", "listener_cb"}
InUserCode == pc \in {"init", "stopped"} \/ InCallback

\* what only the run loop writes
loopVars == <<duration, events, running, borrow, fired>>

\* a call of the API: counted, and recorded in lastOp
Call(op, arg, fn) ==
    /\ InUserCode
    /\ ops < MaxOps
    /\ ops' = ops + 1
    /\ lastOp' = [op |-> op, arg |-> arg, fn |-> fn]

\* borrow_mut() on a RefCell that is already borrowed panics
Panic ==
    /\ pc' = "panicked"
    /\ UNCHANGED <<now, quit, token_ticker, event_listeners, timeout_listeners,
                   cancelled, handles, issued, registered>>
    /\ UNCHANGED loopVars

\* time passes while user code runs
Tick ==
    /\ InUserCode
    /\ now < MaxTime
    /\ now' = now + 1
    /\ lastOp' = NoOp
    /\ UNCHANGED <<quit, token_ticker, event_listeners, timeout_listeners, cancelled,
                   handles, pc, issued, registered, ops>>
    /\ UNCHANGED loopVars

Reactor_quit ==
    /\ Call("quit", 0, NoFn)
    /\ IF borrow = "none"
       THEN /\ quit' = TRUE
            /\ UNCHANGED <<now, token_ticker, event_listeners, timeout_listeners,
                           cancelled, handles, pc, issued, registered>>
            /\ UNCHANGED loopVars
       ELSE Panic

Reactor_set_event_listener(token, fn) ==
    /\ Call("set_event_listener", token, fn)
    /\ IF borrow = "none"
       THEN /\ event_listeners' = MapInsert(event_listeners, token, fn)
            /\ registered' = [registered EXCEPT ![token] = fn]
            /\ UNCHANGED <<now, quit, token_ticker, timeout_listeners, cancelled,
                           handles, pc, issued>>
            /\ UNCHANGED loopVars
       ELSE Panic

Reactor_remove_event_listener(token) ==
    /\ Call("remove_event_listener", token, NoFn)
    /\ IF borrow = "none"
       THEN /\ event_listeners' = MapRemove(event_listeners, token)
            /\ registered' = [registered EXCEPT ![token] = NoFn]
            /\ UNCHANGED <<now, quit, token_ticker, timeout_listeners, cancelled,
                           handles, pc, issued>>
            /\ UNCHANGED loopVars
       ELSE Panic

Reactor_set_timeout(timeout) ==
    /\ Len(timeout_listeners) < MaxTimers
    /\ Call("set_timeout", timeout, NoFn)
    /\ IF borrow = "none"
       THEN /\ timeout_listeners' =
                 Append(timeout_listeners, TimeoutEntry(now, timeout, "timeout", 0, ops + 1))
            /\ UNCHANGED <<now, quit, token_ticker, event_listeners, cancelled,
                           handles, pc, issued, registered>>
            /\ UNCHANGED loopVars
       ELSE Panic

\* mutant: the wrapping timeout is pushed twice
RescheduleTwice(list, t, interval, h) ==
    Append(Append(list, TimeoutEntry(t, interval, "interval", h, 0)),
           TimeoutEntry(t, interval, "interval", h, 0))

\* the wrapping timeout reschedule_interval pushes for handle h
Reactor_reschedule_interval(list, t, interval, h) ==
    Append(list, TimeoutEntry(t, interval, "interval", h, 0))

Reactor_set_interval(interval) ==
    /\ Len(timeout_listeners) < MaxTimers
    /\ handles < MaxIntervals
    /\ Call("set_interval", interval, NoFn)
    /\ IF borrow = "none"
       THEN /\ handles' = handles + 1
            /\ timeout_listeners' =
                 Reactor_reschedule_interval(timeout_listeners, now, interval, handles + 1)
            /\ UNCHANGED <<now, quit, token_ticker, event_listeners, cancelled,
                           pc, issued, registered>>
            /\ UNCHANGED loopVars
       ELSE Panic

Reactor_issue_token ==
    /\ Call("issue_token", token_ticker, NoFn)
    /\ IF borrow = "mut" \/ token_ticker = UsizeMax
       THEN Panic
       ELSE /\ token_ticker' = TickerIncrement(token_ticker)
            /\ issued' = Append(issued, token_ticker)
            /\ UNCHANGED <<now, quit, event_listeners, timeout_listeners, cancelled,
                           handles, pc, registered>>
            /\ UNCHANGED loopVars

\* mutant: the flag is left as it is
SetCancelledNot(flags, h) == flags

\* *self.cancelled.borrow_mut() = true
SetCancelled(flags, h) == [flags EXCEPT ![h] = TRUE]

IntervalHandle_cancel(h) ==
    /\ h <= handles
    /\ Call("cancel", h, NoFn)
    /\ cancelled' = SetCancelled(cancelled, h)
    /\ UNCHANGED <<now, quit, token_ticker, event_listeners, timeout_listeners,
                   handles, pc, issued, registered>>
    /\ UNCHANGED loopVars

\* ---- the run loop -------------------------------------------------------

\* mutant: run clears the quit flag
RunResetsQuit ==
    /\ pc \in {"init", "stopped"}
    /\ pc' = "top"
    /\ quit' = FALSE
    /\ lastOp' = NoOp
    /\ UNCHANGED <<now, token_ticker, event_listeners, timeout_listeners,
                   cancelled, handles, issued, registered, ops>>
    /\ UNCHANGED loopVars

\* Reactor::run, called by user code outside the loop
Reactor_run ==
    /\ pc \in {"init", "stopped"}
    /\ pc' = "top"
    /\ lastOp' = NoOp
    /\ UNCHANGED <<now, quit, token_ticker, event_listeners, timeout_listeners,
                   cancelled, handles, issued, registered, ops>>
    /\ UNCHANGED loopVars

\* while !quit && !is_empty(): false, run_internal returns
LoopExit ==
    /\ pc = "top"
    /\ quit \/ Reactor_is_empty(timeout_listeners, event_listeners)
    /\ pc' = "stopped"
    /\ lastOp' = NoOp
    /\ UNCHANGED <<now, quit, token_ticker, event_listeners, timeout_listeners,
                   cancelled, handles, issued, registered, ops>>
    /\ UNCHANGED loopVars

\* while condition true; let duration = self.calculate_duration()
LoopEnter ==
    /\ pc = "top"
    /\ ~quit /\ ~Reactor_is_empty(timeout_listeners, event_listeners)
    /\ duration' = Reactor_calculate_duration(timeout_listeners, now)
    /\ pc' = "poll"
    /\ lastOp' = NoOp
    /\ UNCHANGED <<fired, now, quit, token_ticker, event_listeners, timeout_listeners,
                   cancelled, handles, issued, registered, ops, events, running,
                   borrow>>

\* poll.poll(&mut events, duration.duration): returns a batch after some time
Poll ==
    /\ pc = "poll"
    /\ \E d \in 0..(MaxTime - now) : now' = now + d
    /\ \E batch \in Batches : events' = batch
    /\ pc' = "wake"
    /\ lastOp' = NoOp
    /\ UNCHANGED <<fired, quit, token_ticker, event_listeners, timeout_listeners,
                   cancelled, handles, issued, registered, ops, duration, running,
                   borrow>>

\* the timer chosen by calculate_duration is due (or there is none to check)
TimerDue ==
    /\ duration.fire_at # NoneVal
    /\ Elapsed(now, duration.fire_at)

\* if let Some(fire_at) ... Instant::now() >= fire_at: the entry is removed and its
\* callback called.  A plain timeout's callback is user code; an interval's
\* wrapper checks the flag, reschedules, and then calls the user callback.
\* (duration is not read again in this iteration: it is reset.)
FireTimer ==
    /\ pc = "wake"
    /\ TimerDue
    /\ lastOp' = NoOp
    /\ duration' = NoDuration
    /\ fired' = fired \cup ({timeout_listeners[duration.idx + 1].id} \ {0})
    /\ LET entry == timeout_listeners[duration.idx + 1]
           rest == VecRemove(timeout_listeners, duration.idx)
           held == BorrowAcrossCallback
       IN IF entry.kind = "timeout"
          THEN /\ timeout_listeners' = rest
               /\ running' = [kind |-> "timeout", token |-> 0, fn |-> NoFn, handle |-> 0,
                              timeout |-> entry.timeout, fire_at |-> entry.fire_at]
               /\ borrow' = held
               /\ pc' = "timer_cb"
               /\ events' = events
          ELSE IF IntervalHandle_is_cancelled(entry.handle)
          THEN \* the wrapper returns at once; if self.i.borrow().quit { break; }
               /\ timeout_listeners' = rest
               /\ running' = NoCallback
               /\ borrow' = "none"
               /\ pc' = IF held = "mut" THEN "panicked"
                        ELSE AfterCallback(quit)
               /\ events' = IF held # "mut" /\ AfterCallback(quit) = "stopped" THEN <<>> ELSE events
          ELSE IF held # "none"
          THEN \* set_timeout inside the wrapper: borrow_mut() while borrowed
               /\ timeout_listeners' = rest
               /\ running' = NoCallback
               /\ borrow' = held
               /\ pc' = "panicked"
               /\ events' = events
          ELSE /\ timeout_listeners' =
                     Reactor_reschedule_interval(rest, now, entry.timeout, entry.handle)
               /\ running' = [kind |-> "interval", token |-> 0, fn |-> NoFn,
                              handle |-> entry.handle, timeout |-> entry.timeout,
                              fire_at |-> entry.fire_at]
               /\ borrow' = held
               /\ pc' = "timer_cb"
               /\ events' = events
    /\ UNCHANGED <<now, quit, token_ticker, event_listeners, cancelled, handles,
                   issued, registered, ops>>

\* no timer, or the nearest one has not elapsed: go on to the events
NoTimerDue ==
    /\ pc = "wake"
    /\ ~TimerDue
    /\ pc' = "dispatch"
    /\ duration' = NoDuration
    /\ lastOp' = NoOp
    /\ UNCHANGED <<fired, now, quit, token_ticker, event_listeners, timeout_listeners,
                   cancelled, handles, issued, registered, ops, events,
                   running, borrow>>

\* the callback returns; if self.i.borrow().quit { break; } leaves run_internal,
\* whose events buffer is dropped with what it still holds
CallbackReturn ==
    /\ InCallback
    /\ running' = NoCallback
    /\ borrow' = "none"
    /\ pc' = IF borrow = "mut" THEN "panicked"
             ELSE AfterCallback(quit)
    /\ events' = IF borrow # "mut" /\ AfterCallback(quit) = "stopped" THEN <<>> ELSE events
    /\ lastOp' = NoOp
    /\ UNCHANGED <<fired, now, quit, token_ticker, event_listeners, timeout_listeners,
                   cancelled, handles, issued, registered, ops, duration>>

\* the listener the loop calls for an event carrying token
DispatchLookup(token) == MapGet(event_listeners, token)

\* mutant: the batch is walked from its end
NextEventLast(batch) == batch[Len(batch)]

\* mutant: the for loop is left at the first event
RestEventsNone(batch) == <<>>

\* the event the for loop reaches next, and those after it
NextEvent(batch) == Head(batch)
RestEvents(batch) == Tail(batch)

\* for event in events.iter(): the next event has a listener, which is called
DispatchEvent ==
    /\ pc = "dispatch"
    /\ events # <<>>
    /\ DispatchLookup(NextEvent(events)) # NoFn
    /\ running' = [kind |-> "listener", token |-> NextEvent(events),
                   fn |-> DispatchLookup(NextEvent(events)), handle |-> 0,
                   timeout |-> 0, fire_at |-> 0]
    /\ borrow' = BorrowAcrossCallback
    /\ pc' = "listener_cb"
    /\ events' = RestEvents(events)
    /\ lastOp' = NoOp
    /\ UNCHANGED <<fired, now, quit, token_ticker, event_listeners, timeout_listeners,
                   cancelled, handles, issued, registered, ops, duration>>

\* the next event has no listener: skipped
SkipEvent ==
    /\ pc = "dispatch"
    /\ events # <<>>
    /\ DispatchLookup(NextEvent(events)) = NoFn
    /\ events' = RestEvents(events)
    /\ lastOp' = NoOp
    /\ UNCHANGED <<fired, now, quit, token_ticker, event_listeners, timeout_listeners,
                   cancelled, handles, pc, issued, registered, ops, duration,
                   running, borrow>>

\* the batch is exhausted: back to the while condition
EndOfBatch ==
    /\ pc = "dispatch"
    /\ events = <<>>
    /\ pc' = "top"
    /\ lastOp' = NoOp
    /\ UNCHANGED <<fired, now, quit, token_ticker, event_listeners, timeout_listeners,
                   cancelled, handles, issued, registered, ops, duration, events,
                   running, borrow>>

Next ==
    \/ Tick
    \/ Reactor_quit
    \/ \E t \in Tokens, f \in ListenerFns : Reactor_set_event_listener(t, f)
    \/ \E t \in Tokens : Reactor_remove_event_listener(t)
    \/ \E d \in Durations : Reactor_set_timeout(d)
    \/ \E d \in Durations : Reactor_set_interval(d)
    \/ Reactor_issue_token
    \/ \E h \in Handles : IntervalHandle_cancel(h)
    \/ Reactor_run
    \/ LoopExit
    \/ LoopEnter
    \/ Poll
    \/ FireTimer
    \/ NoTimerDue
    \/ CallbackReturn
    \/ DispatchEvent
    \/ SkipEvent
    \/ EndOfBatch

Spec == Init /\ [][Next]_vars

\* the steps of run_internal: the loop does not stop by itself between them,
\* and a callback returns
LoopStep ==
    \/ LoopExit \/ LoopEnter \/ Poll \/ FireTimer \/ NoTimerDue
    \/ CallbackReturn \/ DispatchEvent \/ SkipEvent \/ EndOfBatch

\* time advances: of the polls made, not all return at the instant they were called
PollLater == Poll /\ now' > now

FairSpec == Spec /\ WF_vars(LoopStep) /\ SF_vars(PollLater)

TypeOK ==
    /\ now \in 0..MaxTime
    /\ quit \in BOOLEAN
    /\ token_ticker \in 0..UsizeMax
    /\ event_listeners \in [Tokens -> ListenerFns \cup {NoFn}]
    /\ timeout_listeners \in Seq(TimerEntries)
    /\ Len(timeout_listeners) <= MaxTimers
    /\ cancelled \in [Handles -> BOOLEAN]
    /\ handles \in 0..MaxIntervals
    /\ pc \in {"init", "top", "poll", "wake", "timer_cb", "dispatch", "listener_cb",
               "stopped", "panicked"}
    /\ events \in Batches
    /\ borrow \in {"none", "shared", "mut"}
    /\ ops \in 0..MaxOps
    /\ fired \subseteq 1..MaxOps

\* ==== properties =========================================================

\* a user callback starts in this step
CallbackStarts == running' # running /\ running'.kind # "none"
ListenerStarts == CallbackStarts /\ running'.kind = "listener"
\* this step is a call of the API op
Calls(op) == ops' = ops + 1 /\ lastOp'.op = op
NoListeners == \A t \in Tokens : event_listeners[t] = NoFn

\* C1: timers fire in ascending fire_at order: whenever the loop is about to
\* fire a timer, no entry of the timer list has a strictly smaller fire_at,
\* also when several entries are already overdue.
C1_AscendingFireOrder ==
    (pc = "wake" /\ TimerDue) =>
        \A i \in 1..Len(timeout_listeners) :
            timeout_listeners[duration.idx + 1].fire_at <= timeout_listeners[i].fire_at

\* C2: once an interval's handle is cancelled (for instance during the Kth
\* invocation of its user callback), the user callback of that interval is
\* never started again; and the call of cancel leaves the invocation in
\* progress as it is (it goes on and returns by itself).
C2_CancelStopsInterval ==
    [][/\ \A h \in Handles :
            cancelled[h] => ~(CallbackStarts /\ running'.kind = "interval"
                                             /\ running'.handle = h)
       /\ Calls("cancel") => (pc' = pc /\ running' = running /\ borrow' = borrow)]_vars

C2_Witness ==
    /\ pc = "timer_cb"
    /\ running.kind = "interval"
    /\ lastOp.op = "cancel"
    /\ lastOp.arg = running.handle
    /\ cancelled[running.handle]

\* C3: once quit is set, no callback is started any more, the loop makes no
\* further poll, timer check or dispatch, and the callback in which quit was
\* set is left only by the loop stopping, with the rest of the batch dropped.
C3_QuitStopsLoop ==
    [][quit =>
        /\ ~CallbackStarts
        /\ (pc' = pc \/ pc' \notin {"poll", "wake", "dispatch", "timer_cb", "listener_cb"})
        /\ (InCallback /\ pc' # pc) => (pc' = "stopped" /\ events' = <<>>)
        /\ (Calls("quit") => (pc' = pc /\ running' = running))]_vars

C3_Witness ==
    /\ InCallback
    /\ quit
    /\ lastOp.op = "quit"
    /\ events # <<>>
    /\ event_listeners[Head(events)] # NoFn

C5_IdleShutdown ==
    [][/\ (pc = "top" /\ NoListeners /\ timeout_listeners = <<>>) => pc' = "stopped"
       /\ (pc # "stopped" /\ pc' = "stopped") =>
              (quit \/ (NoListeners /\ timeout_listeners = <<>>))]_vars

C5_Witness ==
    /\ pc = "stopped"
    /\ ~quit
    /\ handles = 1
    /\ timeout_listeners = <<>>
    /\ NoListeners


\* the wait calculate_duration computes for one entry
ClampedWait(entry, t) == IF entry.fire_at > t THEN entry.fire_at - t ELSE 0

\* C6: a call of the API made inside a callback never meets a borrow of the
\* reactor state held by the loop (the only panic is issue_token out of
\* tokens), and its effect is seen at the next checkpoint: the next event of
\* the batch is dispatched to the listener its token has at that moment
\* (also one a callback has just registered), and the next
\* calculate_duration takes every entry of the timer list into account
\* (also one a callback has just pushed).
C6_ReentrantMutation ==
    /\ [](borrow = "none")
    /\ [](pc = "panicked" => (lastOp.op = "issue_token" /\ token_ticker = UsizeMax))
    /\ [][/\ (pc = "dispatch" /\ events # <<>> /\ event_listeners[Head(events)] # NoFn)
                => (ListenerStarts /\ running'.token = Head(events)
                                   /\ running'.fn = event_listeners[Head(events)])
          /\ (pc = "top" /\ pc' = "poll")
                => \A i \in 1..Len(timeout_listeners) :
                       duration'.duration <= ClampedWait(timeout_listeners[i], now)]_vars

C6_Witness ==
    /\ pc = "listener_cb"
    /\ lastOp.op = "set_event_listener"
    /\ lastOp.arg # running.token
    /\ events # <<>>
    /\ Head(events) = lastOp.arg

C8_DispatchInOrder ==
    [][(pc = "dispatch" /\ events # <<>>) =>
          /\ ~quit
          /\ events' = Tail(events)
          /\ IF event_listeners[Head(events)] # NoFn
             THEN /\ pc' = "listener_cb"
                  /\ running' = [kind |-> "listener", token |-> Head(events),
                                 fn |-> event_listeners[Head(events)], handle |-> 0,
                                 timeout |-> 0, fire_at |-> 0]
             ELSE pc' = pc /\ running' = running]_vars

C8_Witness ==
    /\ pc = "listener_cb"
    /\ running.kind = "listener"
    /\ events # <<>>
    /\ Head(events) # running.token
    /\ event_listeners[Head(events)] # NoFn

\* C9: when the only timer is a timeout of zero duration and there is no
\* listener, the iteration polls with a zero wait, fires that timer after
\* this one poll, leaving the timer list empty; and an iteration that then
\* starts with nothing registered stops the loop with the timer list empty.
OnlyZeroTimeout ==
    /\ Len(timeout_listeners) = 1
    /\ timeout_listeners[1].kind = "timeout"
    /\ timeout_listeners[1].timeout = 0
    /\ NoListeners

C9_ZeroTimeout ==
    [][/\ (pc = "top" /\ OnlyZeroTimeout /\ ~quit)
             => (pc' = "poll" /\ duration'.duration = 0 /\ duration'.idx = 0)
       /\ (pc = "poll" /\ OnlyZeroTimeout) => (pc' = "wake" /\ OnlyZeroTimeout')
       /\ (pc = "wake" /\ OnlyZeroTimeout)
             => (pc' = "timer_cb" /\ running'.kind = "timeout" /\ running'.timeout = 0
                 /\ timeout_listeners' = <<>>)
       /\ (pc = "top" /\ timeout_listeners = <<>> /\ NoListeners)
             => (pc' = "stopped" /\ timeout_listeners' = <<>>)]_vars

C9_Witness ==
    /\ pc = "timer_cb"
    /\ running.kind = "timeout"
    /\ running.timeout = 0
    /\ ops = 1
    /\ timeout_listeners = <<>>
    /\ NoListeners

\* C10: the listener map is, for every token, the closure of the latest
\* set_event_listener not followed by a remove_event_listener, or none; a
\* listener that starts is that closure; and remove_event_listener on a
\* token without listener changes nothing of the reactor.
C10_ListenerMap ==
    /\ [](event_listeners = registered)
    /\ [][/\ ListenerStarts => running'.fn = registered[running'.token]
          /\ (Calls("remove_event_listener") /\ event_listeners[lastOp'.arg] = NoFn)
                => UNCHANGED <<reactorState, cancelled, handles, now, pc, loopVars>>]_vars

C10_Witness ==
    /\ pc = "listener_cb"
    /\ lastOp.op = "set_event_listener"
    /\ lastOp.arg = running.token
    /\ lastOp.fn # running.fn
    /\ event_listeners[running.token] = lastOp.fn

\* the positions of the timer list that hold the wrapping timeout of interval h
EntriesOf(list, h) ==
    {i \in 1..Len(list) : list[i].kind = "interval" /\ list[i].handle = h}

\* C11: a timer callback is started only at or after its fire_at; when the
\* poll returns before the nearest timer has elapsed, the timer list is left
\* as it is, no callback is called by the timer check, and the loop goes on
\* to the events of the batch.
C11_NotBeforeFireAt ==
    [][/\ (CallbackStarts /\ running'.kind \in {"timeout", "interval"})
             => running'.fire_at <= now'
       /\ (pc = "wake" /\ timeout_listeners' # timeout_listeners)
             => timeout_listeners[duration.idx + 1].fire_at <= now
       /\ (pc = "wake" /\ duration.fire_at # NoneVal /\ now < duration.fire_at)
             => (/\ timeout_listeners' = timeout_listeners
                 /\ running' = running
                 /\ events' = events
                 /\ pc' = "dispatch")]_vars

C11_Witness ==
    /\ pc = "dispatch"
    /\ events # <<>>
    /\ event_listeners[Head(events)] # NoFn
    /\ timeout_listeners # <<>>
    /\ \A i \in 1..Len(timeout_listeners) : timeout_listeners[i].fire_at > now

\* C12: the result of calculate_duration, as the loop holds it when it
\* polls: for an empty list no duration and no fire_at; otherwise the
\* position and fire_at of an entry whose fire_at is minimal over the list,
\* and the wait max(0, fire_at - now).
C12_CalculateDurationMinimal ==
    pc = "poll" =>
        IF timeout_listeners = <<>>
        THEN duration.duration = NoneVal /\ duration.fire_at = NoneVal
        ELSE /\ duration.idx + 1 \in 1..Len(timeout_listeners)
             /\ timeout_listeners[duration.idx + 1].fire_at = duration.fire_at
             /\ \A i \in 1..Len(timeout_listeners) :
                    duration.fire_at <= timeout_listeners[i].fire_at
             /\ duration.duration =
                    (IF duration.fire_at > now THEN duration.fire_at - now ELSE 0)

\* C13: while the user callback of an interval runs, the timer list holds
\* exactly one wrapping timeout of that interval, with the same period, due
\* one period after the firing at the earliest.
C13_RescheduledBeforeCallback ==
    (pc = "timer_cb" /\ running.kind = "interval") =>
        /\ Cardinality(EntriesOf(timeout_listeners, running.handle)) = 1
        /\ \A i \in EntriesOf(timeout_listeners, running.handle) :
              /\ timeout_listeners[i].timeout = running.timeout
              /\ timeout_listeners[i].fire_at >= running.fire_at + running.timeout

C13_Witness ==
    /\ pc = "timer_cb"
    /\ running.kind = "interval"
    /\ lastOp.op = "set_timeout"
    /\ Len(timeout_listeners) = 2
    /\ timeout_listeners[1].kind = "interval"

C16_TimerThenEvents ==
    [][/\ (pc \in {"wake", "timer_cb"} /\ ~quit')
             => (events' = events /\ pc' \in {"timer_cb", "dispatch"})
       /\ (pc = "wake") => pc' \in {"timer_cb", "dispatch"}
       /\ (pc \in {"dispatch", "listener_cb"} /\ events # <<>>)
             => pc' \in {"dispatch", "listener_cb", "stopped"}
       /\ (pc = "dispatch" /\ pc' = "top") => events = <<>>]_vars

C16_Witness ==
    /\ pc = "timer_cb"
    /\ ~quit
    /\ events # <<>>
    /\ event_listeners[Head(events)] # NoFn

\* C17: an event whose token has no listener is consumed without any call
\* and without any change of the reactor state, and the loop stays in the
\* dispatch of the rest of the batch.
C17_MissingListenerSkipped ==
    [][(pc = "dispatch" /\ events # <<>> /\ event_listeners[Head(events)] = NoFn) =>
          /\ UNCHANGED <<reactorState, cancelled, handles, now, running, borrow,
                         duration>>
          /\ pc' = "dispatch"
          /\ events' = Tail(events)]_vars

C17_Witness ==
    /\ pc = "dispatch"
    /\ Len(events) = 2
    /\ event_listeners[events[1]] = NoFn
    /\ event_listeners[events[2]] # NoFn

\* C19: a timer entry leaves the list, and a timer callback starts, only in
\* the timer check that follows a poll; that check is reached only from the
\* poll, the poll only from the head of the loop, and the head of the loop
\* only once the batch is exhausted: so two firings are separated by the end
\* of a batch, a while check and one poll.
C19_OneTimerPerIteration ==
    [][/\ (Len(timeout_listeners') < Len(timeout_listeners)) => pc = "wake"
       /\ (CallbackStarts /\ running'.kind \in {"timeout", "interval"}) => pc = "wake"
       /\ (pc = "wake" /\ pc' # pc) => (pc' \in {"timer_cb", "dispatch", "stopped"}
                                        /\ Len(timeout_listeners') >= Len(timeout_listeners) - 1)
       /\ (pc' = "wake" /\ pc # "wake") => pc = "poll"
       /\ (pc' = "poll" /\ pc # "poll") => pc = "top"
       /\ (pc' = "top" /\ pc # "top")
             => (pc \in {"init", "stopped"} \/ (pc = "dispatch" /\ events = <<>>))]_vars

C19_Witness ==
    /\ pc = "timer_cb"
    /\ running.kind = "timeout"
    /\ Len(timeout_listeners) = 1
    /\ timeout_listeners[1].kind = "timeout"
    /\ timeout_listeners[1].fire_at <= now
    /\ ops = 2
    /\ lastOp = NoOp

\* C20: the quit flag, once set, stays set; with it set a call of run goes
\* to the while check and from there straight to stopped: no poll, no timer
\* check, no dispatch and no callback, whatever is registered.
C20_QuitTerminal ==
    [][quit =>
          /\ quit'
          /\ (pc = "top" => pc' = "stopped")
          /\ (pc \in {"init", "stopped"} => pc' \in {pc, "top"})
          /\ running' \in {running, NoCallback}]_vars

C20_Witness ==
    /\ pc = "top"
    /\ quit
    /\ ops = 2
    /\ (timeout_listeners # <<>> \/ ~NoListeners)

\* the loop is running (control is inside run_internal)
LoopRunning == pc \notin {"init", "stopped", "panicked"}
\* the positions of the timer list that hold the set_timeout entry with id k
EntriesWithId(list, k) == {i \in 1..Len(list) : list[i].id = k}
\* an entry that is due later than the last instant of the model
BeyondHorizon(list, S) == \E i \in S : list[i].fire_at > MaxTime

\* C14: an interval has at most one wrapping timeout in the timer list; once
\* its handle is cancelled none is added, and the one that is queued leaves
\* the list without a user callback being started; and, the loop running
\* and time advancing, the list eventually holds no entry of that interval
\* (unless quit is set first), after which only other timers and listeners
\* keep the loop from its idle shutdown.
C14_CancelledChainEnds ==
    /\ [](\A h \in Handles : Cardinality(EntriesOf(timeout_listeners, h)) <= 1)
    /\ [][\A h \in Handles : cancelled[h] =>
             /\ Cardinality(EntriesOf(timeout_listeners', h))
                   <= Cardinality(EntriesOf(timeout_listeners, h))
             /\ (EntriesOf(timeout_listeners', h) # EntriesOf(timeout_listeners, h)
                   /\ timeout_listeners[duration.idx + 1].handle = h)
                   => (~CallbackStarts /\ EntriesOf(timeout_listeners', h) = {}
                       /\ Len(timeout_listeners') = Len(timeout_listeners) - 1)]_vars
    /\ \A h \in Handles :
          (cancelled[h] /\ LoopRunning)
             ~> (\/ EntriesOf(timeout_listeners, h) = {}
                 \/ quit
                 \/ pc = "panicked"
                 \/ BeyondHorizon(timeout_listeners, EntriesOf(timeout_listeners, h)))

C14_Witness ==
    /\ pc = "dispatch"
    /\ handles = 1
    /\ cancelled[1]
    /\ EntriesOf(timeout_listeners, 1) = {}
    /\ ~quit

\* C18: a set_timeout entry whose callback was called is no longer in the
\* timer list (it is removed before the call) and no two entries share an
\* id, so no entry is called twice; a firing removes exactly the entry it
\* calls; and, the loop running and time advancing, every entry in the list
\* is eventually called, whatever other timers, intervals of period zero
\* and events there are (unless quit is set first).
C18_EachTimeoutOnce ==
    /\ [](\A i \in 1..Len(timeout_listeners) :
             /\ timeout_listeners[i].id \notin fired
             /\ timeout_listeners[i].id # 0
                   => EntriesWithId(timeout_listeners, timeout_listeners[i].id) = {i})
    /\ [][/\ fired \subseteq fired'
          /\ (pc = "wake" /\ timeout_listeners' # timeout_listeners
                          /\ timeout_listeners[duration.idx + 1].kind = "timeout")
                => LET entry == timeout_listeners[duration.idx + 1]
                   IN /\ CallbackStarts
                      /\ running'.kind = "timeout"
                      /\ running'.fire_at = entry.fire_at
                      /\ fired' = fired \cup {entry.id}
                      /\ entry.id \notin fired
                      /\ Len(timeout_listeners') = Len(timeout_listeners) - 1
                      /\ EntriesWithId(timeout_listeners', entry.id) = {}
          /\ (fired' # fired) => pc = "wake"]_vars
    /\ \A k \in 1..MaxOps :
          (EntriesWithId(timeout_listeners, k) # {} /\ LoopRunning)
             ~> (\/ k \in fired
                 \/ quit
                 \/ pc = "panicked"
                 \/ BeyondHorizon(timeout_listeners, EntriesWithId(timeout_listeners, k)))

C18_Witness ==
    /\ pc = "timer_cb"
    /\ running.kind = "timeout"
    /\ fired = {2}
    /\ \E i \in 1..Len(timeout_listeners) :
          timeout_listeners[i].kind = "interval" /\ timeout_listeners[i].timeout = 0

====
